---- MODULE Spec2Model ----
\* Verification model of estate-mind-ai: the Crawl Agent (agents/crawler.py),
\* the Raw-Page Archive (agents/bronze_storage.py), the Ingestion Script
\* (agents/run_crawler.py) and the Listing store (listings/models.py).
EXTENDS Integers, Sequences, FiniteSets, TLC

\* ------------------------------------------------------------------ bounds
MaxLen == 4        \* longest model response (in tokens) explored by SpecParse
MaxPages == 3      \* max_pages handed to CrawlerAgent.run
MaxListings == 1   \* max_listings handed to CrawlerAgent.run
MaxDay == 2        \* UTC days the clock may pass through
MaxRecords == 2    \* longest crawl-record list handed to save_to_bronze_and_db

\* ------------------------------------------------------------------ universes
Procs == {1, 2}                 \* ingestion processes (invocations of the script)
URLS == {"u1", "u2"}            \* listing URLs the sites can show
Days == 1..MaxDay
NoReport == [printed |-> FALSE]

\* ------------------------------------------------------------------ model-response text
\* A response is a sequence of tokens:
\*   TO = "<think>"   TC = "</think>"   FJ = "```json"   FE = "```"
\*   LB = "{"         RB = "}"          K  = "\"listing_urls\":[...]"
\*   A  = "[]" (valid JSON that is no mapping)   N = a word of noise   WS = "\n"
Tokens == {"TO", "TC", "FJ", "FE", "LB", "RB", "K", "A", "N", "WS"}

Texts(n) == UNION {[1..k -> Tokens] : k \in 0..n}

Contains(s, tok) == \E i \in DOMAIN s : s[i] = tok

FirstIndex(s, toks) == CHOOSE i \in DOMAIN s : s[i] \in toks /\ \A j \in 1..(i-1) : s[j] \notin toks

LastIndex(s, tok) == CHOOSE i \in DOMAIN s : s[i] = tok /\ \A j \in (i+1)..Len(s) : s[j] # tok

\* str.strip(): leading and trailing whitespace removed
RECURSIVE LStrip(_)
LStrip(s) == IF s # <<>> /\ Head(s) = "WS" THEN LStrip(Tail(s)) ELSE s

RECURSIVE RStrip(_)
RStrip(s) == IF s # <<>> /\ s[Len(s)] = "WS" THEN RStrip(SubSeq(s, 1, Len(s) - 1)) ELSE s

Strip(s) == RStrip(LStrip(s))

\* s.split(tok)[-1]: what follows the last tok (all of s when there is none)
SplitLast(s, tok) == IF Contains(s, tok) THEN SubSeq(s, LastIndex(s, tok) + 1, Len(s)) ELSE s

\* s.split(sep)[0] where every token of toks contains sep
SplitFirst(s, toks) ==
    IF \E i \in DOMAIN s : s[i] \in toks THEN SubSeq(s, 1, FirstIndex(s, toks) - 1) ELSE s

\* s.split(sep)[1], for s that holds a token of toks
SplitSecond(s, toks) == SubSeq(s, FirstIndex(s, toks) + 1, Len(s))

\* json.loads: the value parsed, or JSONDecodeError
JsonLoads(s) ==
    LET c == SelectSeq(s, LAMBDA t : t # "WS")
    IN  IF c = <<"LB", "K", "RB">> THEN "dict_urls"
        ELSE IF c = <<"LB", "RB">> THEN "dict_empty"
        ELSE IF c = <<"A">> THEN "list"
        ELSE "JSONDecodeError"

\* the candidate text of the second json.loads (crawler.py:84-91)
Candidate(t) ==
    IF Contains(t, "FJ")
    THEN Strip(SplitFirst(SplitSecond(t, {"FJ"}), {"FJ", "FE"}))
    ELSE IF Contains(t, "FE")
    THEN Strip(SplitFirst(SplitSecond(t, {"FE"}), {"FE"}))
    ELSE IF Contains(t, "LB")
    THEN SubSeq(t, FirstIndex(t, {"LB"}), LastIndex(t, "RB"))
    ELSE t

\* CrawlerAgent._parse_json: the value returned, or "ValueError" when
\* text.rindex("}") raises
ParseJson(text) ==
    LET s == Strip(text)
        t == IF Contains(s, "TO") THEN Strip(SplitLast(s, "TC")) ELSE s
    IN  IF JsonLoads(t) # "JSONDecodeError" THEN JsonLoads(t)
        ELSE IF ~Contains(t, "FJ") /\ ~Contains(t, "FE") /\ Contains(t, "LB") /\ ~Contains(t, "RB")
        THEN "ValueError"
        ELSE IF JsonLoads(Candidate(t)) # "JSONDecodeError" THEN JsonLoads(Candidate(t))
        ELSE "dict_empty"

\* ------------------------------------------------------------------ program constants
\* Listing.STATUS_CHOICES (listings/models.py:61-65)
STATUS_CHOICES == {"bronze", "silver", "gold"}

\* the status literal save_to_bronze_and_db gives a new row (run_crawler.py:56)
IngestStatus == "raw"

\* CrawlerAgent._get_pagination_urls for the tayara.tn search URL main() passes:
\* one URL per page number 1..max_pages
PaginationUrls(max_pages) == [i \in 1..max_pages |-> i]

\* CrawlerAgent._generate_minio_key: YYYY/MM/DD/{sha256(url)[:16]}.html, the
\* date read at call time (the hash prefix is taken to be injective on URLS)
GenerateMinioKey(day, url) == <<day, url>>

\* model responses the discovery fallback is run against: the four shapes of
\* spec.md section 8.5, a mapping without the key, a response cut off inside
\* the object, and valid JSON that is no mapping
LlmTexts ==
    { <<>>,
      <<"TO", "N", "TC", "LB", "K", "RB">>,
      <<"FJ", "WS", "LB", "K", "RB", "WS", "FE">>,
      <<"N", "LB", "K", "RB", "N">>,
      <<"N">>,
      <<"LB", "RB">>,
      <<"LB", "K">>,
      <<"A">> }

\* CrawlerAgent._call_llm: the content of the completion, "" when litellm raises
CallLlm(ok, content) == IF ok THEN content ELSE <<>>

\* all orders list(set) can give
Orderings(S) == {f \in [1..Cardinality(S) -> S] : \A i, j \in DOMAIN f : i # j => f[i] # f[j]}

\* mutant: the slice is left out
PrefixAll(s, n) == s

\* list[:n]
Prefix(s, n) == SubSeq(s, 1, IF Len(s) < n THEN Len(s) ELSE n)

VARIABLES
    pc,        \* pc[p]: where process p stands in main()
    page,      \* discover_listings: index of the next page URL
    all_urls,  \* discover_listings: all_urls
    pageLog,   \* history: one entry per search page fetched by discover_listings
    todo,      \* run: listing_urls[:max_listings] not yet crawled
    results,   \* run's results, then save_to_bronze_and_db's argument (kept on record)
    ridx,      \* save_to_bronze_and_db: index of the record being saved
    stats,     \* save_to_bronze_and_db: stats
    error,     \* the exception that ended the process ("" when none)
    report,    \* what main() printed as its final run report
    archive,   \* keys of the objects in the MinIO bucket
    putCount,  \* history: successful put_object calls per key
    listings,  \* the rows of the Listing table, in insertion order
    today,     \* the UTC day of the clock
    text,      \* _parse_json: its argument
    parsed,    \* _parse_json: its result ("none" before the call)
    crawlLog,  \* history: one entry per listing page fetched by run
    action,    \* ListingViewSet: the action of the last request ("none" before any)
    representation  \* ListingViewSet: the fields of the representation chosen for it

procVars == <<pc, page, all_urls, pageLog, todo, results, ridx, stats, error, report>>
storeVars == <<archive, putCount, listings>>
parseVars == <<text, parsed>>
apiVars == <<action, representation>>
vars == <<procVars, storeVars, today, parseVars, apiVars, crawlLog>>

Keys == Days \X URLS
Blank == <<>>      \* the empty string as an object key
ZeroStats == [bronze_saved |-> 0, db_created |-> 0, db_skipped |-> 0]

InitProcs ==
    /\ pc = [p \in Procs |-> "idle"]
    /\ page = [p \in Procs |-> 0]
    /\ all_urls = [p \in Procs |-> {}]
    /\ pageLog = [p \in Procs |-> <<>>]
    /\ todo = [p \in Procs |-> <<>>]
    /\ results = [p \in Procs |-> <<>>]
    /\ ridx = [p \in Procs |-> 0]
    /\ stats = [p \in Procs |-> ZeroStats]
    /\ error = [p \in Procs |-> ""]
    /\ report = [p \in Procs |-> NoReport]
    /\ crawlLog = [p \in Procs |-> <<>>]

InitStores ==
    /\ archive = {}
    /\ putCount = [k \in Keys |-> 0]
    /\ listings = <<>>
    /\ today = 1
    /\ action = "none"
    /\ representation = {}

\* ------------------------------------------------------------------ process exit
\* the process ends: its working memory is gone; what it was given, what it
\* fetched, what it printed and its exception stay on record
Exit(p, how, exc) ==
    /\ pc' = [pc EXCEPT ![p] = how]
    /\ error' = [error EXCEPT ![p] = exc]
    /\ page' = [page EXCEPT ![p] = 0]
    /\ all_urls' = [all_urls EXCEPT ![p] = {}]
    /\ todo' = [todo EXCEPT ![p] = <<>>]
    /\ ridx' = [ridx EXCEPT ![p] = 0]
    /\ UNCHANGED results

Raise(p, exc) == Exit(p, "crashed", exc) /\ UNCHANGED <<pageLog, stats, report>>

\* ------------------------------------------------------------------ CrawlerAgent
\* main() up to the first search page fetch (run_crawler.py:63-75, crawler.py:173-182)
MainStart(p) ==
    /\ pc[p] = "idle"
    /\ pc' = [pc EXCEPT ![p] = "discover"]
    /\ page' = [page EXCEPT ![p] = 1]
    /\ UNCHANGED <<all_urls, pageLog, todo, results, ridx, stats, error, report>>
    /\ UNCHANGED <<storeVars, today, parseVars, apiVars, crawlLog>>

LogEntry(i, ok, regex, called, response, llm) ==
    [page |-> i, success |-> ok, regex_urls |-> regex, llm_called |-> called,
     llm_response |-> response, llm_urls |-> llm]

\* mutant: pagination stops only when the page gave no URL at all
StopPaginationNoUrls(regex_urls, llm_urls) == regex_urls \cup llm_urls = {}

\* the stop condition of discover_listings (crawler.py:212-214)
StopPagination(regex_urls, llm_urls) == regex_urls = {}

\* mutant: the model is asked about every page that was fetched
LlmAlways(success, regex_urls) == success

\* the fallback of discover_listings runs for a fetched page on which the regex
\* pass found nothing (crawler.py:189-191, 202-203)
LlmFallback(success, regex_urls) == success /\ regex_urls = {}

\* mutant: a failed fetch falls through to the stop condition
PageStopsOnFailure(success, regex_urls, llm_urls) == StopPagination(regex_urls, llm_urls)

\* the loop of discover_listings breaks after a fetched page that meets the
\* stop condition; a failed fetch continues (crawler.py:189-191, 211-214)
PageStops(success, regex_urls, llm_urls) == success /\ StopPagination(regex_urls, llm_urls)

\* CrawlerAgent._discover_with_llm: the URLs of the reply's "listing_urls",
\* [] by default; "raise" when _parse_json raises or its value has no .get
DiscoverWithLlm(reply, listed) ==
    IF reply = "ValueError" THEN [raise |-> "ValueError", urls |-> {}]
    ELSE IF reply = "list" THEN [raise |-> "AttributeError", urls |-> {}]
    ELSE IF reply = "dict_urls" THEN [raise |-> "", urls |-> listed]
    ELSE [raise |-> "", urls |-> {}]

\* one iteration of the loop of discover_listings (crawler.py:184-214)
DiscoverPage(p) ==
    /\ pc[p] = "discover"
    /\ page[p] <= Len(PaginationUrls(MaxPages))
    /\ \E success \in BOOLEAN, regex_urls \in SUBSET URLS, llm_ok \in BOOLEAN,
          content \in LlmTexts, listed \in SUBSET URLS :
        LET called == LlmFallback(success, regex_urls)
            llm == IF called
                   THEN DiscoverWithLlm(ParseJson(CallLlm(llm_ok, content)), listed)
                   ELSE [raise |-> "", urls |-> {}]
            last == page[p] = Len(PaginationUrls(MaxPages))
            stop == PageStops(success, regex_urls, llm.urls)
        IN
        \* inputs that are not read are fixed, so that each outcome is one step
        /\ ~success => regex_urls = {}
        /\ ~(success /\ regex_urls = {}) => (llm_ok /\ content = <<>>)
        /\ ~llm_ok => content = <<>>
        /\ ParseJson(CallLlm(llm_ok, content)) # "dict_urls" => listed = {}
        /\ pageLog' = [pageLog EXCEPT ![p] =
                         Append(@, LogEntry(page[p], success, regex_urls, called,
                                            CallLlm(llm_ok, content), llm.urls))]
        /\ IF llm.raise # ""
           THEN Exit(p, "crashed", llm.raise)
           ELSE /\ all_urls' = [all_urls EXCEPT ![p] = @ \cup regex_urls \cup llm.urls]
                /\ pc' = [pc EXCEPT ![p] = IF stop \/ last THEN "discovered" ELSE "discover"]
                /\ page' = [page EXCEPT ![p] = @ + 1]
                /\ UNCHANGED <<todo, results, ridx, error>>
    /\ UNCHANGED <<stats, report, storeVars, today, parseVars, apiVars, crawlLog>>

\* discover_listings returns list(all_urls); run cuts it to max_listings, or
\* returns [] when it is empty (crawler.py:216-217, 262-272)
EndDiscover(p) ==
    /\ pc[p] = "discovered"
    /\ IF all_urls[p] = {}
       THEN /\ pc' = [pc EXCEPT ![p] = "save_init"]
            /\ todo' = todo
       ELSE \E listing_urls \in Orderings(all_urls[p]) :
            /\ todo' = [todo EXCEPT ![p] = Prefix(listing_urls, MaxListings)]
            /\ pc' = [pc EXCEPT ![p] = IF Prefix(listing_urls, MaxListings) = <<>> THEN "save_init" ELSE "crawl"]
    /\ UNCHANGED <<page, all_urls, pageLog, results, ridx, stats, error, report>>
    /\ UNCHANGED <<storeVars, today, parseVars, apiVars, crawlLog>>

CrawlRecord(url, day, html) ==
    [url |-> url, success |-> TRUE, raw_html |-> html, raw_html_key |-> GenerateMinioKey(day, url)]

\* one iteration of the loop of run: crawl_listing, then keep or drop
\* (crawler.py:272-279, 231-248)
CrawlListing(p) ==
    /\ pc[p] = "crawl"
    /\ todo[p] # <<>>
    /\ \E success \in BOOLEAN, html \in {"", "h"}, day \in {today, today + 1} \cap Days :
        /\ ~success => (html = "" /\ day = today)
        /\ today' = day
        /\ crawlLog' = [crawlLog EXCEPT ![p] = Append(@, [url |-> Head(todo[p]), success |-> success])]
        /\ results' = [results EXCEPT ![p] =
                          IF success THEN Append(@, CrawlRecord(Head(todo[p]), day, html)) ELSE @]
    /\ todo' = [todo EXCEPT ![p] = Tail(@)]
    /\ pc' = [pc EXCEPT ![p] = IF Tail(todo[p]) = <<>> THEN "save_init" ELSE "crawl"]
    /\ UNCHANGED <<page, all_urls, pageLog, ridx, stats, error, report>>
    /\ UNCHANGED <<storeVars, parseVars, apiVars>>

\* ------------------------------------------------------------------ Ingestion Script
\* crawl-record lists CrawlerAgent.run can return from day d on: the URLs of one
\* run are distinct (they come out of a set), the days do not decrease
LastDay(rs, d) == IF rs = <<>> THEN d ELSE rs[Len(rs)].raw_html_key[1]

ResultLists(d) ==
    LET Recs == {CrawlRecord(u, day, h) : u \in URLS, day \in {x \in Days : x >= d}, h \in {"", "h"}}
    IN  {rs \in UNION {[1..n -> Recs] : n \in 0..MaxRecords} :
            /\ \A i, j \in DOMAIN rs : i # j => rs[i].url # rs[j].url
            /\ \A i, j \in DOMAIN rs : i < j => rs[i].raw_html_key[1] <= rs[j].raw_html_key[1]}

\* a later invocation of the script has crawled and calls save_to_bronze_and_db
\* after the earlier one ended
IngestStart(p) ==
    /\ pc[p] = "idle"
    /\ \A q \in Procs : q < p => pc[q] \in {"done", "crashed"}
    /\ \E rs \in ResultLists(today) :
        /\ results' = [results EXCEPT ![p] = rs]
        /\ today' = LastDay(rs, today)
    /\ pc' = [pc EXCEPT ![p] = "save_init"]
    /\ UNCHANGED <<page, all_urls, pageLog, todo, ridx, stats, error, report>>
    /\ UNCHANGED <<storeVars, parseVars, apiVars, crawlLog>>

\* two invocations of the script side by side
IngestStartConcurrent(p) ==
    /\ pc[p] = "idle"
    /\ \E rs \in ResultLists(today) :
        /\ results' = [results EXCEPT ![p] = rs]
        /\ today' = LastDay(rs, today)
    /\ pc' = [pc EXCEPT ![p] = "save_init"]
    /\ UNCHANGED <<page, all_urls, pageLog, todo, ridx, stats, error, report>>
    /\ UNCHANGED <<storeVars, parseVars, apiVars, crawlLog>>

\* the loop of save_to_bronze_and_db moves to the next record, or returns
NextRecord(p) ==
    /\ ridx' = [ridx EXCEPT ![p] = @ + 1]
    /\ pc' = [pc EXCEPT ![p] = IF ridx[p] < Len(results[p]) THEN "bronze_exists" ELSE "report"]

\* BronzeStorage() with its _ensure_bucket, and stats (run_crawler.py:28-29,
\* bronze_storage.py:25-52): an S3Error of the bucket calls is raised
BronzeInit(p) ==
    /\ pc[p] = "save_init"
    /\ \E bucket_ok \in BOOLEAN :
        IF bucket_ok
        THEN /\ stats' = [stats EXCEPT ![p] = ZeroStats]
             /\ ridx' = [ridx EXCEPT ![p] = 1]
             /\ pc' = [pc EXCEPT ![p] = IF results[p] = <<>> THEN "report" ELSE "bronze_exists"]
             /\ UNCHANGED <<page, all_urls, pageLog, todo, results, error, report>>
        ELSE Raise(p, "S3Error")
    /\ UNCHANGED <<storeVars, today, parseVars, apiVars, crawlLog>>

\* BronzeStorage.exists: stat_object answered, otherwise S3Error and False
\* (bronze_storage.py:111-117)
BronzeExists(objects, minio_key, stat_ok) == minio_key \in objects /\ stat_ok

\* the guard of the bronze block and the existence check (run_crawler.py:35-39)
BronzeCheck(p) ==
    /\ pc[p] = "bronze_exists"
    /\ LET r == results[p][ridx[p]]
           has_page == r.raw_html_key # Blank /\ r.raw_html # ""
       IN  \E stat_ok \in BOOLEAN :
             /\ ~has_page => stat_ok
             /\ pc' = [pc EXCEPT ![p] =
                         IF has_page /\ ~BronzeExists(archive, r.raw_html_key, stat_ok)
                         THEN "bronze_store" ELSE "db_check"]
    /\ UNCHANGED <<page, all_urls, pageLog, todo, results, ridx, stats, error, report>>
    /\ UNCHANGED <<storeVars, today, parseVars, apiVars, crawlLog>>

\* the counter after bronze.store_raw_html returned stored (run_crawler.py:40-41)
BronzeSaved(n, stored) == n + 1

\* bronze.store_raw_html and the counter (run_crawler.py:40-41,
\* bronze_storage.py:54-82): put_object writes the object, or S3Error and False
BronzeStore(p) ==
    /\ pc[p] = "bronze_store"
    /\ LET r == results[p][ridx[p]]
       IN  \E put_ok \in BOOLEAN :
             /\ archive' = IF put_ok THEN archive \cup {r.raw_html_key} ELSE archive
             /\ putCount' = IF put_ok THEN [putCount EXCEPT ![r.raw_html_key] = @ + 1] ELSE putCount
             /\ stats' = [stats EXCEPT ![p].bronze_saved = BronzeSaved(@, put_ok)]
    /\ pc' = [pc EXCEPT ![p] = "db_check"]
    /\ UNCHANGED <<page, all_urls, pageLog, todo, results, ridx, error, report>>
    /\ UNCHANGED <<listings, today, parseVars, apiVars, crawlLog>>

\* mutant: the filter names another field
ListingExistsWrongField(rows, url) == \E i \in DOMAIN rows : rows[i].status = url

\* Listing.objects.filter(source_url=url).exists()
ListingExists(rows, url) == \E i \in DOMAIN rows : rows[i].source_url = url

\* the existence check of the silver block (run_crawler.py:43-46)
DbCheck(p) ==
    /\ pc[p] = "db_check"
    /\ IF ListingExists(listings, results[p][ridx[p]].url)
       THEN /\ stats' = [stats EXCEPT ![p].db_skipped = @ + 1]
            /\ NextRecord(p)
       ELSE /\ pc' = [pc EXCEPT ![p] = "db_create"]
            /\ UNCHANGED <<ridx, stats>>
    /\ UNCHANGED <<page, all_urls, pageLog, todo, results, error, report>>
    /\ UNCHANGED <<storeVars, today, parseVars, apiVars, crawlLog>>

\* the row save_to_bronze_and_db builds (run_crawler.py:50-57)
NewListing(r) == [source_url |-> r.url, raw_html_key |-> r.raw_html_key, status |-> IngestStatus]

\* mutant: the column carries no uniqueness constraint
NoUniqueConstraint(rows, row) == FALSE

\* source_url is unique=True (listings/models.py:9): the INSERT of a second row
\* with the URL is rejected
UniqueViolation(rows, row) == \E i \in DOMAIN rows : rows[i].source_url = row.source_url

\* Listing(...).save() and the counter (run_crawler.py:50-58)
DbCreate(p) ==
    /\ pc[p] = "db_create"
    /\ LET row == NewListing(results[p][ridx[p]])
       IN  IF UniqueViolation(listings, row)
           THEN /\ Raise(p, "IntegrityError")
                /\ listings' = listings
           ELSE /\ listings' = Append(listings, row)
                /\ stats' = [stats EXCEPT ![p].db_created = @ + 1]
                /\ NextRecord(p)
                /\ UNCHANGED <<page, all_urls, pageLog, todo, results, error, report>>
    /\ UNCHANGED <<archive, putCount, today, parseVars, apiVars, crawlLog>>

\* mutant: the report reads a counter stats does not hold
ReportKeyError(p) ==
    /\ pc[p] = "report"
    /\ Raise(p, "KeyError")
    /\ UNCHANGED <<storeVars, today, parseVars, apiVars, crawlLog>>

\* the final run report of main (run_crawler.py:82-88)
Report(p) ==
    /\ pc[p] = "report"
    /\ report' = [report EXCEPT ![p] =
                     [printed |-> TRUE, bronze_saved |-> stats[p].bronze_saved,
                      db_created |-> stats[p].db_created, db_skipped |-> stats[p].db_skipped,
                      total |-> Len(listings)]]
    /\ Exit(p, "done", "")
    /\ UNCHANGED <<pageLog, stats, storeVars, today, parseVars, apiVars, crawlLog>>

\* ------------------------------------------------------------------ specifications
Init == InitProcs /\ InitStores /\ text = <<>> /\ parsed = "none"

Save(p) == BronzeInit(p) \/ BronzeCheck(p) \/ BronzeStore(p) \/ DbCheck(p) \/ DbCreate(p) \/ Report(p)

\* one invocation of the script: main()
Next == MainStart(1) \/ DiscoverPage(1) \/ EndDiscover(1) \/ CrawlListing(1) \/ Save(1)

Spec == Init /\ [][Next]_vars

\* successive invocations of the script, from the call of save_to_bronze_and_db on
NextIngest == \E p \in Procs : IngestStart(p) \/ Save(p)

SpecIngest == Init /\ [][NextIngest]_vars

\* two invocations side by side, from the call of save_to_bronze_and_db on
NextConcurrent == \E p \in Procs : IngestStartConcurrent(p) \/ Save(p)

SpecConcurrent == Init /\ [][NextConcurrent]_vars

\* _parse_json on every response of up to MaxLen tokens
InitParse == InitProcs /\ InitStores /\ text \in Texts(MaxLen) /\ parsed = "none"

Parse ==
    /\ parsed = "none"
    /\ parsed' = ParseJson(text)
    /\ UNCHANGED <<text, procVars, storeVars, today, apiVars, crawlLog>>

NextParse == Parse

SpecParse == InitParse /\ [][NextParse]_vars

\* ------------------------------------------------------------------ the Listing API
\* the columns of Listing, with the id Django adds (listings/models.py:4-80)
ModelFields ==
    {"id", "source", "source_url", "source_id", "title", "description",
     "property_type", "transaction_type", "price", "currency", "area_m2",
     "rooms", "bedrooms", "bathrooms", "floor", "governorate", "delegation",
     "city", "address", "latitude", "longitude", "features", "images",
     "status", "scraped_at", "updated_at", "published_at", "raw_html_key",
     "raw_extracted"}

\* ListingSerializer: fields = '__all__' (listings/serializers.py:5-8)
ListingSerializer == ModelFields

\* ListingSummarySerializer.Meta.fields (listings/serializers.py:11-19)
ListingSummarySerializer ==
    {"id", "title", "source", "source_url", "price", "rooms", "area_m2",
     "governorate", "status", "scraped_at"}

\* mutant: every read, retrieve too, gets the lighter serializer
GetSerializerClassReads(act) ==
    IF act \in {"list", "retrieve"} THEN ListingSummarySerializer ELSE ListingSerializer

\* ListingViewSet.get_serializer_class (listings/views.py:13-16)
GetSerializerClass(act) ==
    IF act = "list" THEN ListingSummarySerializer ELSE ListingSerializer

\* a row as a request body gives it: status is validated against the choices
\* of the column (listings/models.py:61-66), raw_html_key is free
\* (listings/models.py:74-77)
ApiRows == [source_url : URLS, raw_html_key : Keys \cup {Blank}, status : STATUS_CHOICES]

\* rows without the i-th
Without(rows, i) == SubSeq(rows, 1, i - 1) \o SubSeq(rows, i + 1, Len(rows))

\* a request handled by ListingViewSet with self.action = act: action and
\* representation record the action and the field set of the serializer class
\* the view set gives for it (listings/views.py:7-16)
Handle(act) ==
    /\ action' = act
    /\ representation' = GetSerializerClass(act)
    /\ UNCHANGED <<procVars, archive, putCount, today, parseVars, crawlLog>>

\* GET /listings/
ApiList == Handle("list") /\ UNCHANGED listings

\* GET /listings/<id>/
ApiRetrieve ==
    /\ listings # <<>>
    /\ Handle("retrieve")
    /\ UNCHANGED listings

\* POST /listings/: the row is inserted unless its source_url is taken
ApiCreate ==
    \E row \in ApiRows :
        /\ ~UniqueViolation(listings, row)
        /\ listings' = Append(listings, row)
        /\ Handle("create")

\* PUT /listings/<id>/: the row is replaced unless its new source_url is
\* another row's
ApiUpdate ==
    \E i \in DOMAIN listings, row \in ApiRows :
        /\ ~UniqueViolation(Without(listings, i), row)
        /\ listings' = [listings EXCEPT ![i] = row]
        /\ Handle("update")

\* DELETE /listings/<id>/
ApiDestroy ==
    \E i \in DOMAIN listings :
        /\ listings' = Without(listings, i)
        /\ Handle("destroy")

\* the requests the router of ModelViewSet serves
NextApi == ApiList \/ ApiRetrieve \/ ApiCreate \/ ApiUpdate \/ ApiDestroy

SpecApi == Init /\ [][NextApi]_vars

\* ------------------------------------------------------------------ properties
UniqueSourceUrls == \A i, j \in DOMAIN listings : i # j => listings[i].source_url # listings[j].source_url

C2_IngestIdempotent ==
    /\ []UniqueSourceUrls
    /\ [][\A p \in Procs :
            (/\ pc[p] = "db_check"
             /\ pc'[p] # "db_check"
             /\ \E i \in DOMAIN listings : listings[i].source_url = results[p][ridx[p]].url)
            => /\ listings' = listings
               /\ stats'[p].db_skipped = stats[p].db_skipped + 1
               /\ stats'[p].db_created = stats[p].db_created]_vars

\* C2 witness: the second run was handed the URL the first run stored, and
\* ended with one row in the table and db_skipped = 1
C2_Witness ==
    /\ pc[1] = "done" /\ pc[2] = "done"
    /\ Len(results[1]) = 1 /\ Len(results[2]) = 1
    /\ results[1][1].url = results[2][1].url
    /\ Len(listings) = 1
    /\ stats[1].db_created = 1
    /\ stats[2].db_skipped = 1 /\ stats[2].db_created = 0

\* C3: when two successive runs are handed the same single crawl record (same
\* non-blank key, same non-empty raw HTML), the Archive saw exactly one write
\* under the key and the two bronze_saved counters add up to 1.
C3_ArchiveIdempotent ==
    (/\ pc[1] = "done" /\ pc[2] = "done"
     /\ Len(results[1]) = 1
     /\ results[2] = results[1]
     /\ results[1][1].raw_html_key # Blank
     /\ results[1][1].raw_html # "")
    => /\ putCount[results[1][1].raw_html_key] = 1
       /\ stats[1].bronze_saved + stats[2].bronze_saved = 1

\* C4: the Archive is append-only: store_raw_html is never called for a key
\* that holds an object, so no key is ever written twice.
C4_ArchiveAppendOnly ==
    /\ \A p \in Procs : pc[p] = "bronze_store" => results[p][ridx[p]].raw_html_key \notin archive
    /\ \A k \in Keys : putCount[k] <= 1

\* C5: every Listing row's raw_html_key is blank or the key of an object that
\* is in the Archive.
C5_RawHtmlKeyArchived ==
    \A i \in DOMAIN listings : listings[i].raw_html_key = Blank \/ listings[i].raw_html_key \in archive

\* C6: CrawlerAgent.run never raises, whatever the page fetches and the model
\* calls do: the process is never ended by an exception out of run.
C6_RunNeverRaises ==
    \A p \in Procs : ~(pc[p] = "crashed" /\ error[p] \in {"ValueError", "AttributeError"})

\* the recovery chain as the claim states it: think-strip, direct parse,
\* first fenced block (json-tagged preferred), first "{" to last "}", each
\* falling through to the next, {} when all fail
ChainMapping(s) == IF JsonLoads(s) \in {"dict_urls", "dict_empty"} THEN JsonLoads(s) ELSE "none"

ChainFenced(t) ==
    IF Contains(t, "FJ") THEN Strip(SplitFirst(SplitSecond(t, {"FJ"}), {"FJ", "FE"}))
    ELSE IF Contains(t, "FE") THEN Strip(SplitFirst(SplitSecond(t, {"FE"}), {"FE"}))
    ELSE <<"N">>

ChainBraces(t) ==
    IF Contains(t, "LB") /\ Contains(t, "RB")
    THEN SubSeq(t, FirstIndex(t, {"LB"}), LastIndex(t, "RB"))
    ELSE <<"N">>

RecoveryChain(s) ==
    LET t == IF Contains(s, "TC") THEN Strip(SplitLast(s, "TC")) ELSE Strip(s)
    IN  IF ChainMapping(t) # "none" THEN ChainMapping(t)
        ELSE IF ChainMapping(ChainFenced(t)) # "none" THEN ChainMapping(ChainFenced(t))
        ELSE IF ChainMapping(ChainBraces(t)) # "none" THEN ChainMapping(ChainBraces(t))
        ELSE "dict_empty"

\* C7: for every response text _parse_json returns, without raising, the
\* mapping of the first strategy of the recovery chain that parses, and the
\* empty mapping when none does.
C7_RecoveryChain == parsed # "none" => parsed = RecoveryChain(text)

C9_StatusInChoices == \A i \in DOMAIN listings : listings[i].status \in STATUS_CHOICES

\* C10: under any interleaving of two ingestion runs, no two Listing rows have
\* the same source_url.
C10_NoDuplicateRows ==
    \A u \in URLS : Cardinality({i \in DOMAIN listings : listings[i].source_url = u}) <= 1

\* C10 witness: both runs passed the existence check for one URL, one created
\* the row and the other's insert was rejected
C10_Witness ==
    \E p, q \in Procs :
        /\ error[p] = "IntegrityError"
        /\ stats[q].db_created >= 1
        /\ \E i \in DOMAIN results[p], j \in DOMAIN results[q] : results[p][i].url = results[q][j].url
        /\ Len(listings) >= 1

\* C15: bronze_saved counts the objects the run wrote to the Archive: a step
\* of a run adds one to its bronze_saved only when it writes an object, so a
\* store_raw_html call that fails is not counted.
C15_BronzeSavedCountsWrites ==
    [][\A p \in Procs :
          stats'[p].bronze_saved = stats[p].bronze_saved + 1 =>
              \E k \in Keys : putCount'[k] = putCount[k] + 1]_vars

\* the URLs the search pages of a run gave, by regex or by the model
Found(p) == UNION {pageLog[p][i].regex_urls \cup pageLog[p][i].llm_urls : i \in DOMAIN pageLog[p]}

\* C12: discover_listings fetches the search pages in increasing page-number
\* order from page 1, each once and at most max_pages of them; a failed fetch
\* does not end pagination (unless it was the last page, the next page is
\* fetched), and the URLs of every fetched page are in the set returned.
C12_PagesInOrderFailuresSkipped ==
    \A p \in Procs :
        LET log == pageLog[p]
        IN  /\ Len(log) <= MaxPages
            /\ \A i \in DOMAIN log : log[i].page = i
            /\ \A i \in DOMAIN log :
                  ~log[i].success => (i < Len(log) \/ i = MaxPages \/ pc[p] = "discover")
            /\ pc[p] \in {"discover", "discovered"} =>
                  \A i \in DOMAIN log : log[i].regex_urls \subseteq all_urls[p]

\* C12 witness: page 1 failed, page 2 was fetched all the same and its URL is
\* in the set discovery returns
C12_Witness ==
    /\ pc[1] = "discovered"
    /\ Len(pageLog[1]) >= 2
    /\ ~pageLog[1][1].success
    /\ pageLog[1][2].success /\ pageLog[1][2].regex_urls = {"u2"}
    /\ "u2" \in all_urls[1]

\* C13: run fetches at most max_listings listing pages, no URL twice, only
\* URLs discovery found and only after discovery has ended; its results are
\* the records of the successful fetches in fetch order, so at most
\* min(number of discovered URLs, max_listings); when discovery found nothing
\* no listing page is fetched and the result is empty.
C13_ListingCrawlBounded ==
    \A p \in Procs :
        LET log == crawlLog[p]
            ok == SelectSeq(log, LAMBDA e : e.success)
        IN  /\ Len(log) <= MaxListings
            /\ \A i, j \in DOMAIN log : i # j => log[i].url # log[j].url
            /\ \A i \in DOMAIN log : log[i].url \in Found(p)
            /\ log # <<>> => pc[p] \notin {"idle", "discover", "discovered"}
            /\ Len(results[p]) = Len(ok)
            /\ \A i \in DOMAIN ok : results[p][i].url = ok[i].url
            /\ Len(results[p]) <= Cardinality(Found(p))
            /\ Len(results[p]) <= MaxListings
            /\ Found(p) = {} => (log = <<>> /\ results[p] = <<>>)

\* C13 witness: discovery found more URLs than max_listings, run fetched
\* max_listings of them and returned the record of a successful fetch
C13_Witness ==
    /\ pc[1] = "save_init"
    /\ Cardinality(Found(1)) > MaxListings
    /\ Len(crawlLog[1]) = MaxListings
    /\ crawlLog[1][1].success
    /\ Len(results[1]) = 1

====
